---- MODULE Spec2Model ----
(***************************************************************************)
(* Model of the refspec matching baseline harness                          *)
(* (git-refspec/tests/matching/mod.rs) and of the drop handlers of the     *)
(* configuration snapshots (git-repository/src/config/snapshot/_impls.rs). *)
(* Byte strings are sequences of one-character strings.                    *)
(***************************************************************************)
EXTENDS Integers, Sequences, FiniteSets, TLC

VARIABLES
    name, namerOp, namerOut,                         \* Namer: argument, function applied, result
    refLines, out, inputState,                       \* parse_input: lines read, Vec<Ref>, position
    lines, map, mappings, fatal, parseState,         \* baseline::parse
    specs, items, mode, expected, actual, checkState,\* check_fetch_remote
    repoConfig, cachesCleared, snap, guard, settled, rereadArg, escaped, txn

namerVars == <<name, namerOp, namerOut>>
inputVars == <<refLines, out, inputState>>
parseVars == <<lines, map, mappings, fatal, parseState>>
matchVars == <<specs, items, mode, expected, actual, checkState>>
configVars == <<repoConfig, cachesCleared, snap, guard, settled, rereadArg, escaped, txn>>
vars == <<namerVars, inputVars, parseVars, matchVars, configVars>>
notNamer == <<inputVars, parseVars, matchVars, configVars>>
notInput == <<namerVars, parseVars, matchVars, configVars>>
notParse == <<namerVars, inputVars, matchVars, configVars>>
notMatch == <<namerVars, inputVars, parseVars, configVars>>
notConfig == <<namerVars, inputVars, parseVars, matchVars>>

(***************************************************************************)
(* Bounds                                                                  *)
(***************************************************************************)
MaxTail == 2
MaxRefLines == 3
MaxLines == 4
MaxSpecs == 2
MaxVal == 2
MaxTxn == 2

(***************************************************************************)
(* Byte-string helpers (bstr / slice methods used by the source)           *)
(***************************************************************************)
None == <<>>
Some(x) == <<x>>

starts_with(s, p) == Len(s) >= Len(p) /\ SubSeq(s, 1, Len(p)) = p
ends_with(s, p) == Len(s) >= Len(p) /\ SubSeq(s, Len(s) - Len(p) + 1, Len(s)) = p
contains(s, c) == \E i \in 1..Len(s) : s[i] = c
strip_prefix(s, p) == IF starts_with(s, p) THEN Some(SubSeq(s, Len(p) + 1, Len(s))) ELSE None

\* position of the first occurrence of byte c in s, 0 when absent
RECURSIVE find_byte(_, _, _)
find_byte(s, c, i) ==
    IF i > Len(s) THEN 0
    ELSE IF s[i] = c THEN i
    ELSE find_byte(s, c, i + 1)

\* slice::split(|b| *b == c): every piece, empty ones included
RECURSIVE split(_, _)
split(s, c) ==
    LET p == find_byte(s, c, 1) IN
    IF p = 0 THEN <<s>>
    ELSE <<SubSeq(s, 1, p - 1)>> \o split(SubSeq(s, p + 1, Len(s)), c)

\* slice::splitn(2, |b| *b == c)
splitn2(s, c) ==
    LET p == find_byte(s, c, 1) IN
    IF p = 0 THEN <<s>>
    ELSE <<SubSeq(s, 1, p - 1), SubSeq(s, p + 1, Len(s))>>

Whitespace == {" ", "\t", "\r"}

RECURSIVE trim_start(_)
trim_start(s) ==
    IF s # <<>> /\ Head(s) \in Whitespace THEN trim_start(Tail(s)) ELSE s

RECURSIVE trim_end(_)
trim_end(s) ==
    IF s # <<>> /\ s[Len(s)] \in Whitespace THEN trim_end(SubSeq(s, 1, Len(s) - 1)) ELSE s

trim(s) == trim_end(trim_start(s))

filter_non_empty(ts) == SelectSeq(ts, LAMBDA t : t # <<>>)

(***************************************************************************)
(* git_hash::ObjectId::from_hex                                            *)
(***************************************************************************)
HexLen == 40
HexDigits == {"0", "1", "2", "3", "4", "5", "6", "7", "8", "9",
              "a", "b", "c", "d", "e", "f"}

from_hex_ok(s) == Len(s) = HexLen /\ \A i \in 1..Len(s) : s[i] \in HexDigits

\* an object id made of one repeated digit
Oid(c) == [i \in 1..HexLen |-> c]

(***************************************************************************)
(* Namer: looks_like_tag, full_remote_ref, full_tracking_ref               *)
(***************************************************************************)
TagPrefix == <<"v", "0", ".">>
OriginPrefix == <<"o", "r", "i", "g", "i", "n", "/">>
RefsTags == <<"r", "e", "f", "s", "/", "t", "a", "g", "s", "/">>
RefsHeads == <<"r", "e", "f", "s", "/", "h", "e", "a", "d", "s", "/">>
RefsRemotes == <<"r", "e", "f", "s", "/", "r", "e", "m", "o", "t", "e", "s", "/">>

looks_like_tag(n) == starts_with(n, TagPrefix)

full_remote_ref_nohex(n) ==
    IF ~contains(n, "/")
    THEN IF looks_like_tag(n) THEN RefsTags \o n
         ELSE RefsHeads \o n
    ELSE n

full_remote_ref(n) ==
    IF ~contains(n, "/")
    THEN IF looks_like_tag(n) THEN RefsTags \o n
         ELSE IF from_hex_ok(n) THEN n
         ELSE RefsHeads \o n
    ELSE n

full_tracking_ref_heads(n) ==
    IF starts_with(n, OriginPrefix) THEN RefsRemotes \o n
    ELSE IF looks_like_tag(n) THEN RefsTags \o n
    ELSE RefsHeads \o n

full_tracking_ref(n) ==
    IF starts_with(n, OriginPrefix) THEN RefsRemotes \o n
    ELSE IF looks_like_tag(n) THEN RefsTags \o n
    ELSE n

\* tokens the naming functions are applied to
TailAlphabet == {"a", "/", "1"}
Tails == UNION {[1..n -> TailAlphabet] : n \in 0..MaxTail}
Prefixes == {<<>>, TagPrefix, OriginPrefix, <<"v", "0">>, <<"o", "r", "i", "g", "i", "n">>}
HexLike == {Oid("a"), Oid("7"), SubSeq(Oid("a"), 1, HexLen - 1), Oid("a") \o <<"a">>,
            [i \in 1..HexLen |-> IF i = 3 THEN "g" ELSE "a"],
            [i \in 1..HexLen |-> IF i = 9 THEN "/" ELSE "a"]}
Tokens == {p \o t : p \in Prefixes, t \in Tails} \cup HexLike

NamerInit ==
    /\ name \in Tokens
    /\ namerOp = "none"
    /\ namerOut = None

NamerIdle ==
    /\ name = <<>>
    /\ namerOp = "none"
    /\ namerOut = None

CallFullRemoteRef ==
    /\ namerOp = "none"
    /\ namerOp' = "full_remote_ref"
    /\ namerOut' = Some(full_remote_ref(name))
    /\ UNCHANGED name
    /\ UNCHANGED notNamer

CallFullTrackingRef ==
    /\ namerOp = "none"
    /\ namerOp' = "full_tracking_ref"
    /\ namerOut' = Some(full_tracking_ref(name))
    /\ UNCHANGED name
    /\ UNCHANGED notNamer

(***************************************************************************)
(* parse_input: the advertised refs of remote-refs.list                    *)
(***************************************************************************)
FromPrefix == <<"F", "r", "o", "m", " ">>
PeeledSuffix == <<"^", "{", "}">>
Tab == <<"\t">>
NameMain == RefsHeads \o <<"m">>
NameTag == RefsTags \o <<"t">>

Ref(n, target, tag) == [name |-> n, target |-> target, tag |-> tag]

\* Ref::to_item: the borrowed view handed to the matcher
to_item(r) == [full_ref_name |-> r.name, target |-> r.target, tag |-> r.tag]

RefLinePool ==
    {Oid(c) \o Tab \o n \o sfx : c \in {"a", "b"}, n \in {NameMain, NameTag},
                                  sfx \in {<<>>, PeeledSuffix}}
    \cup {FromPrefix \o <<"x">>, Oid("a"), <<"z">> \o Tab \o NameMain}

ref_line_is_from(line) == starts_with(line, FromPrefix)
ref_line_hex(line) == splitn2(line, "\t")[1]
ref_line_has_name(line) == Len(splitn2(line, "\t")) = 2
ref_line_name(line) == splitn2(line, "\t")[2]

\* the else branch of parse_input: the line carries the peeled id of the last ref
peel_last_keep_target(o, target) ==
    [o EXCEPT ![Len(o)] = Ref(o[Len(o)].name, o[Len(o)].target, Some(target))]

peel_last(o, target) ==
    [o EXCEPT ![Len(o)] = Ref(o[Len(o)].name, target, Some(o[Len(o)].target))]

InputInit ==
    /\ refLines = <<>>
    /\ out = <<>>
    /\ inputState = "running"

InputIdle ==
    /\ refLines = <<>>
    /\ out = <<>>
    /\ inputState = "idle"

InputSkipFrom ==
    /\ inputState = "running"
    /\ Len(refLines) < MaxRefLines
    /\ \E line \in RefLinePool :
        /\ ref_line_is_from(line)
        /\ refLines' = Append(refLines, line)
    /\ UNCHANGED <<out, inputState>>
    /\ UNCHANGED notInput

InputBadHex ==
    /\ inputState = "running"
    /\ Len(refLines) < MaxRefLines
    /\ \E line \in RefLinePool :
        /\ ~ref_line_is_from(line)
        /\ ~from_hex_ok(ref_line_hex(line))
        /\ refLines' = Append(refLines, line)
    /\ inputState' = "error"
    /\ UNCHANGED out
    /\ UNCHANGED notInput

InputPanic ==
    /\ inputState = "running"
    /\ Len(refLines) < MaxRefLines
    /\ \E line \in RefLinePool :
        /\ ~ref_line_is_from(line)
        /\ from_hex_ok(ref_line_hex(line))
        /\ \/ ~ref_line_has_name(line)
           \/ /\ ref_line_has_name(line)
              /\ ends_with(ref_line_name(line), PeeledSuffix)
              /\ out = <<>>
        /\ refLines' = Append(refLines, line)
    /\ inputState' = "panicked"
    /\ UNCHANGED out
    /\ UNCHANGED notInput

InputPushRef ==
    /\ inputState = "running"
    /\ Len(refLines) < MaxRefLines
    /\ \E line \in RefLinePool :
        /\ ~ref_line_is_from(line)
        /\ from_hex_ok(ref_line_hex(line))
        /\ ref_line_has_name(line)
        /\ ~ends_with(ref_line_name(line), PeeledSuffix)
        /\ refLines' = Append(refLines, line)
        /\ out' = Append(out, Ref(ref_line_name(line), ref_line_hex(line), None))
    /\ UNCHANGED inputState
    /\ UNCHANGED notInput

InputPeel ==
    /\ inputState = "running"
    /\ Len(refLines) < MaxRefLines
    /\ \E line \in RefLinePool :
        /\ ~ref_line_is_from(line)
        /\ from_hex_ok(ref_line_hex(line))
        /\ ref_line_has_name(line)
        /\ ends_with(ref_line_name(line), PeeledSuffix)
        /\ out # <<>>
        /\ refLines' = Append(refLines, line)
        /\ out' = peel_last(out, ref_line_hex(line))
    /\ UNCHANGED inputState
    /\ UNCHANGED notInput

InputFinish ==
    /\ inputState = "running"
    /\ inputState' = "done"
    /\ UNCHANGED <<refLines, out>>
    /\ UNCHANGED notInput

InputNext ==
    \/ InputSkipFrom
    \/ InputBadHex
    \/ InputPanic
    \/ InputPushRef
    \/ InputPeel
    \/ InputFinish

(***************************************************************************)
(* baseline::parse: the expected outcomes of baseline.git                  *)
(***************************************************************************)
SpecsPrefix == <<"s", "p", "e", "c", "s", ":", " ">>
FatalPrefix == <<"f", "a", "t", "a", "l", ":", " ">>
BranchNote == <<" ", "*", " ", "b", "r", "a", "n", "c", "h", " ">>
TagNote == <<" ", "*", " ", "t", "a", "g", " ">>
FETCH_HEAD == <<"F", "E", "T", "C", "H", "_", "H", "E", "A", "D">>
Arrow == <<" ", "-", ">", " ">>
NewBranchNote == <<" ", "*", " ", "[", "n", "e", "w", " ", "b", "r", "a", "n", "c", "h", "]", " ", " ">>
NewTagNote == <<" ", "*", " ", "[", "n", "e", "w", " ", "t", "a", "g", "]", " ">>
TagName == TagPrefix \o <<"1">>

LinePool ==
    { FromPrefix \o <<"x">>,
      SpecsPrefix \o <<"a">>,
      SpecsPrefix \o <<"b", " ", "c">>,
      FatalPrefix \o <<"e">>,
      BranchNote \o <<"m">> \o Arrow \o FETCH_HEAD,
      TagNote \o TagName \o Arrow \o FETCH_HEAD \o Tab,
      NewBranchNote \o <<"m">> \o Arrow \o OriginPrefix \o <<"m">>,
      NewTagNote \o TagName \o Arrow \o TagName,
      NewTagNote \o <<"a", "/", "b">> \o Arrow \o <<"x">>,
      <<"j", "u", "n", "k">>,
      BranchNote \o <<"m">> }

Mapping(remote, local) == [remote |-> remote, local |-> local]
Ok(v) == [ok |-> TRUE, value |-> v]
Err(e) == [ok |-> FALSE, value |-> e]

is_from_line(line) == starts_with(line, FromPrefix)
is_specs_line(line) == ~is_from_line(line) /\ strip_prefix(line, SpecsPrefix) # None
is_fatal_line(line) ==
    ~is_from_line(line) /\ ~is_specs_line(line) /\ strip_prefix(line, FatalPrefix) # None
is_result_line(line) == ~is_from_line(line) /\ ~is_specs_line(line) /\ ~is_fatal_line(line)

\* key of a specs line: specs.split(|b| *b == b' ')
specs_key(line) == split(strip_prefix(line, SpecsPrefix)[1], " ")
fatal_message(line) == strip_prefix(line, FatalPrefix)[1]

\* the text after the note of a result line, None when the line is unhandled
past_note(line) ==
    LET parts == splitn2(line, "]") IN
    IF Len(parts) = 2 THEN Some(parts[2])
    ELSE IF strip_prefix(line, BranchNote) # None THEN strip_prefix(line, BranchNote)
    ELSE strip_prefix(line, TagNote)

line_tokens(line) == filter_non_empty(split(past_note(line)[1], " "))

\* a result line that the parser turns into a Mapping without panicking
is_mapping_line(line) ==
    /\ is_result_line(line)
    /\ past_note(line) # None
    /\ Len(line_tokens(line)) >= 3

line_lhs(line) == trim(line_tokens(line)[1])
line_rhs(line) == trim(line_tokens(line)[3])

local_of_always(rhs) == Some(full_tracking_ref(rhs))

local_of(rhs) == IF rhs # FETCH_HEAD THEN Some(full_tracking_ref(rhs)) ELSE None

mapping_of_line(line) == Mapping(full_remote_ref(line_lhs(line)), local_of(line_rhs(line)))

map_insert(m, key, value) ==
    [k \in DOMAIN m \cup {key} |-> IF k = key THEN value ELSE m[k]]

\* the value inserted at a specs line: fatal.take(), else mem::take(&mut mappings)
specs_value_ignoring_fatal(f, ms) == Ok(ms)

specs_value(f, ms) == IF f # None THEN Err(f[1]) ELSE Ok(ms)

\* the mapping list left behind by the specs line
mappings_after_specs(f, ms) == IF f # None THEN ms ELSE <<>>

EmptyMap == [k \in {} |-> None]

ParseInit ==
    /\ lines = <<>>
    /\ map = EmptyMap
    /\ mappings = <<>>
    /\ fatal = None
    /\ parseState = "running"

ParseIdle ==
    /\ lines = <<>>
    /\ map = EmptyMap
    /\ mappings = <<>>
    /\ fatal = None
    /\ parseState = "idle"

ParseSkipFrom ==
    /\ parseState = "running"
    /\ Len(lines) < MaxLines
    /\ \E line \in LinePool :
        /\ is_from_line(line)
        /\ lines' = Append(lines, line)
    /\ UNCHANGED <<map, mappings, fatal, parseState>>
    /\ UNCHANGED notParse

ParseSpecsLine ==
    /\ parseState = "running"
    /\ Len(lines) < MaxLines
    /\ \E line \in LinePool :
        /\ is_specs_line(line)
        /\ lines' = Append(lines, line)
        /\ map' = map_insert(map, specs_key(line), specs_value(fatal, mappings))
    /\ mappings' = mappings_after_specs(fatal, mappings)
    /\ fatal' = None
    /\ UNCHANGED parseState
    /\ UNCHANGED notParse

ParseFatalLine ==
    /\ parseState = "running"
    /\ Len(lines) < MaxLines
    /\ \E line \in LinePool :
        /\ is_fatal_line(line)
        /\ lines' = Append(lines, line)
        /\ fatal' = Some(fatal_message(line))
    /\ UNCHANGED <<map, mappings, parseState>>
    /\ UNCHANGED notParse

ParseMappingLine ==
    /\ parseState = "running"
    /\ Len(lines) < MaxLines
    /\ \E line \in LinePool :
        /\ is_mapping_line(line)
        /\ lines' = Append(lines, line)
        /\ mappings' = Append(mappings, mapping_of_line(line))
    /\ UNCHANGED <<map, fatal, parseState>>
    /\ UNCHANGED notParse

ParsePanic ==
    /\ parseState = "running"
    /\ Len(lines) < MaxLines
    /\ \E line \in LinePool :
        /\ is_result_line(line)
        /\ ~is_mapping_line(line)
        /\ lines' = Append(lines, line)
    /\ parseState' = "panicked"
    /\ UNCHANGED <<map, mappings, fatal>>
    /\ UNCHANGED notParse

ParseFinish ==
    /\ parseState = "running"
    /\ parseState' = "done"
    /\ UNCHANGED <<lines, map, mappings, fatal>>
    /\ UNCHANGED notParse

ParseNext ==
    \/ ParseSkipFrom
    \/ ParseSpecsLine
    \/ ParseFatalLine
    \/ ParseMappingLine
    \/ ParsePanic
    \/ ParseFinish

(***************************************************************************)
(* Configuration snapshots: SnapshotMut and CommitAndRollback              *)
(***************************************************************************)
ConfigValues == 0..MaxVal

\* SnapshotMut { repo: Option<&mut Repository>, config }
SnapshotMut(repo, config) == [repo |-> repo, config |-> config]
\* CommitAndRollback { repo, prev_config }
CommitAndRollback(prev_config) == [prev_config |-> prev_config]

\* Drop for SnapshotMut: number of commits attempted, by the state of the handle
drop_commits_always(s) == 1

drop_commits(s) == IF s.repo THEN 1 ELSE 0

\* Drop for CommitAndRollback: the configuration handed to the re-read
rollback_source_current(g, current) == current

rollback_source(g, current) == g.prev_config

ConfigInit ==
    /\ repoConfig \in ConfigValues
    /\ cachesCleared = TRUE
    /\ snap = None
    /\ guard = None
    /\ settled = <<>>
    /\ rereadArg = None
    /\ escaped = FALSE
    /\ txn = 0

ConfigIdle ==
    /\ repoConfig = 0
    /\ cachesCleared = TRUE
    /\ snap = None
    /\ guard = None
    /\ settled = <<>>
    /\ rereadArg = None
    /\ escaped = FALSE
    /\ txn = 0

\* Repository::config_snapshot_mut
AcquireSnapshot ==
    /\ snap = None
    /\ guard = None
    /\ txn < MaxTxn
    /\ snap' = Some(SnapshotMut(TRUE, repoConfig))
    /\ settled' = <<>>
    /\ txn' = txn + 1
    /\ UNCHANGED <<repoConfig, cachesCleared, guard, rereadArg, escaped>>
    /\ UNCHANGED notConfig

\* DerefMut for SnapshotMut: the caller edits the snapshot's file
EditSnapshot ==
    /\ snap # None
    /\ snap[1].repo
    /\ \E v \in ConfigValues :
        /\ v # snap[1].config
        /\ snap' = Some(SnapshotMut(snap[1].repo, v))
    /\ UNCHANGED <<repoConfig, cachesCleared, guard, settled, rereadArg, escaped, txn>>
    /\ UNCHANGED notConfig

\* Deref for CommitAndRollback / plain use of the repository: caches fill up
UseRepository ==
    /\ snap = None
    /\ cachesCleared
    /\ cachesCleared' = FALSE
    /\ UNCHANGED <<repoConfig, snap, guard, settled, rereadArg, escaped, txn>>
    /\ UNCHANGED notConfig

\* SnapshotMut::commit up to the point where self goes out of scope
CommitExplicit ==
    /\ snap # None
    /\ snap[1].repo
    /\ \E ok \in BOOLEAN :
        /\ repoConfig' = IF ok THEN snap[1].config ELSE repoConfig
        /\ cachesCleared' = IF ok THEN TRUE ELSE cachesCleared
    /\ snap' = Some(SnapshotMut(FALSE, snap[1].config))
    /\ settled' = Append(settled, "commit")
    /\ UNCHANGED <<guard, rereadArg, escaped, txn>>
    /\ UNCHANGED notConfig

\* SnapshotMut::commit_auto_rollback up to the point where self goes out of scope
CommitAutoRollback ==
    /\ snap # None
    /\ snap[1].repo
    /\ guard = None
    /\ \E ok \in BOOLEAN :
        /\ repoConfig' = IF ok THEN snap[1].config ELSE repoConfig
        /\ cachesCleared' = IF ok THEN TRUE ELSE cachesCleared
        /\ guard' = IF ok THEN Some(CommitAndRollback(repoConfig)) ELSE None
    /\ snap' = Some(SnapshotMut(FALSE, snap[1].config))
    /\ settled' = Append(settled, "commit_auto_rollback")
    /\ UNCHANGED <<rereadArg, escaped, txn>>
    /\ UNCHANGED notConfig

\* impl Drop for SnapshotMut
DropSnapshotMut ==
    /\ snap # None
    /\ \E ok \in BOOLEAN :
        /\ repoConfig' = IF drop_commits(snap[1]) = 1 /\ ok THEN snap[1].config ELSE repoConfig
        /\ cachesCleared' = IF drop_commits(snap[1]) = 1 /\ ok THEN TRUE ELSE cachesCleared
    /\ settled' = settled \o [k \in 1..drop_commits(snap[1]) |-> "drop"]
    /\ snap' = None
    /\ UNCHANGED <<guard, rereadArg, escaped, txn>>
    /\ UNCHANGED notConfig

\* impl Drop for CommitAndRollback
DropCommitAndRollback ==
    /\ guard # None
    /\ snap = None
    /\ \E ok \in BOOLEAN :
        LET source == rollback_source(guard[1], repoConfig) IN
        /\ rereadArg' = Some([config |-> source, ok |-> ok])
        /\ repoConfig' = IF ok THEN source ELSE repoConfig
        /\ cachesCleared' = IF ok THEN TRUE ELSE cachesCleared
    /\ escaped' = FALSE
    /\ guard' = None
    /\ UNCHANGED <<snap, settled, txn>>
    /\ UNCHANGED notConfig

ConfigNext ==
    \/ AcquireSnapshot
    \/ EditSnapshot
    \/ UseRepository
    \/ CommitExplicit
    \/ CommitAutoRollback
    \/ DropSnapshotMut
    \/ DropCommitAndRollback

(***************************************************************************)
(* Refspec parsing and MatchGroup::match_remotes                           *)
(***************************************************************************)
RECURSIVE count_byte(_, _)
count_byte(s, c) ==
    IF s = <<>> THEN 0
    ELSE (IF Head(s) = c THEN 1 ELSE 0) + count_byte(Tail(s), c)

\* git_refspec::parse(spec, Operation::Fetch)
parse_refspec(raw) ==
    LET force == raw # <<>> /\ Head(raw) = "+"
        body == IF force THEN Tail(raw) ELSE raw
        parts == splitn2(body, ":")
        src == parts[1]
        dst == IF Len(parts) = 2 THEN Some(parts[2]) ELSE None
    IN [ok |-> /\ src # <<>>
               /\ count_byte(src, "*") <= 1
               /\ dst # None => count_byte(dst[1], "*") = count_byte(src, "*"),
        src |-> src, dst |-> dst, force |-> force]

is_object_id_source(spec) == from_hex_ok(spec.src)

Namespaces == {RefsHeads, RefsTags, RefsRemotes, <<"r", "e", "f", "s", "/">>}

\* Matcher: None when the item does not match, Some(destination) when it does
matches_lhs(spec, item) ==
    LET n == item.full_ref_name
        star == find_byte(spec.src, "*", 1)
    IN IF star = 0
       THEN IF n = spec.src \/ \E ns \in Namespaces : n = ns \o spec.src
            THEN Some(spec.dst)
            ELSE None
       ELSE LET prefix == SubSeq(spec.src, 1, star - 1)
                suffix == SubSeq(spec.src, star + 1, Len(spec.src))
                middle == SubSeq(n, Len(prefix) + 1, Len(n) - Len(suffix))
            IN IF /\ starts_with(n, prefix)
                  /\ ends_with(n, suffix)
                  /\ Len(n) - Len(prefix) - Len(suffix) >= 1
               THEN IF spec.dst = None THEN Some(Some(full_tracking_ref(n)))
                    ELSE LET d == spec.dst[1]
                             dstar == find_byte(d, "*", 1)
                         IN Some(Some(SubSeq(d, 1, dstar - 1) \o middle
                                      \o SubSeq(d, dstar + 1, Len(d))))
               ELSE None

MatchMapping(kind, lhs, rhs, spec_index, item_index) ==
    [kind |-> kind, lhs |-> lhs, rhs |-> rhs, spec_index |-> spec_index,
     item_index |-> item_index]

\* the matches of one name-pattern spec, in item order
RECURSIVE item_matches(_, _, _, _)
item_matches(spec, spec_index, its, i) ==
    IF i > Len(its) THEN <<>>
    ELSE (IF matches_lhs(spec, its[i]) # None
          THEN <<MatchMapping("name", its[i].full_ref_name, matches_lhs(spec, its[i])[1],
                              spec_index, i)>>
          ELSE <<>>)
         \o item_matches(spec, spec_index, its, i + 1)

\* an object-id source yields one mapping whatever the items are
object_mapping(spec, spec_index, its) ==
    <<MatchMapping("object", spec.src, spec.dst, spec_index, 0)>>

RECURSIVE spec_order_matches(_, _, _)
spec_order_matches(ps, its, s) ==
    IF s > Len(ps) THEN <<>>
    ELSE (IF is_object_id_source(ps[s]) THEN object_mapping(ps[s], s, its)
          ELSE item_matches(ps[s], s, its, 1))
         \o spec_order_matches(ps, its, s + 1)

\* where the object-id mappings go relative to the name-pattern mappings
Placements == {"interleaved", "appended"}

place(raw, placement) ==
    IF placement = "interleaved" THEN raw
    ELSE SelectSeq(raw, LAMBDA m : m.kind = "name") \o SelectSeq(raw, LAMBDA m : m.kind = "object")

\* duplicate destinations: the mapping of the earliest spec wins
RECURSIVE dedup(_, _)
dedup(raw, k) ==
    IF k > Len(raw) THEN <<>>
    ELSE (IF /\ raw[k].kind = "name"
             /\ raw[k].rhs # None
             /\ \E j \in 1..Len(raw) : /\ raw[j].kind = "name"
                                       /\ raw[j].spec_index < raw[k].spec_index
                                       /\ raw[j].rhs = raw[k].rhs
          THEN <<>>
          ELSE <<raw[k]>>)
         \o dedup(raw, k + 1)

\* tag autofollow: tags whose peeled object is the target of a matched item
RECURSIVE autofollow(_, _, _)
autofollow(res, its, i) ==
    IF i > Len(its) THEN <<>>
    ELSE (IF /\ starts_with(its[i].full_ref_name, RefsTags)
             /\ its[i].tag # None
             /\ \A k \in 1..Len(res) : res[k].item_index # i
             /\ \E k \in 1..Len(res) : /\ res[k].item_index # 0
                                       /\ its[res[k].item_index].target = its[i].tag[1]
          THEN <<MatchMapping("autofollow", its[i].full_ref_name,
                              Some(its[i].full_ref_name), 0, i)>>
          ELSE <<>>)
         \o autofollow(res, its, i + 1)

match_remotes(ps, its, placement) ==
    LET resolved == dedup(place(spec_order_matches(ps, its, 1), placement), 1)
    IN resolved \o autofollow(resolved, its, 1)

(***************************************************************************)
(* check_fetch_remote: the comparison of match_remotes with the baseline   *)
(***************************************************************************)
Normal == [kind |-> "Normal", expected |-> <<>>]
ObjectHashSource(e) == [kind |-> "ObjectHashSource", expected |-> e]

Min(a, b) == IF a <= b THEN a ELSE b
lhs_list(act) == [k \in 1..Len(act) |-> act[k].lhs]

\* one iteration of the zip loop panics
zip_mismatch(a, e, md) ==
    \/ md.kind = "Normal" /\ a.lhs # e.remote
    \/ /\ e.local # None
       /\ (a.rhs = None \/ a.rhs[1] # e.local[1])

check_outcome_no_len(act, exp, md) ==
    IF \E idx \in 1..Min(Len(act), Len(exp)) : zip_mismatch(act[idx], exp[idx], md)
    THEN "panicked"
    ELSE IF md.kind = "ObjectHashSource" /\ lhs_list(act) # md.expected THEN "panicked"
    ELSE "passed"

check_outcome_no_align(act, exp, md) ==
    IF Len(act) # (IF md.kind = "Normal" THEN Len(exp) ELSE Len(md.expected)) THEN "panicked"
    ELSE IF \E idx \in 1..Min(Len(act), Len(exp)) : zip_mismatch(act[idx], exp[idx], md)
    THEN "panicked"
    ELSE "passed"

\* the assertions of check_fetch_remote after match_remotes returned
check_outcome(act, exp, md) ==
    IF Len(act) # (IF md.kind = "Normal" THEN Len(exp) ELSE Len(md.expected)) THEN "panicked"
    ELSE IF \E idx \in 1..Min(Len(act), Len(exp)) : zip_mismatch(act[idx], exp[idx], md)
    THEN "panicked"
    ELSE IF md.kind = "ObjectHashSource" /\ lhs_list(act) # md.expected THEN "panicked"
    ELSE "passed"

Colon == <<":">>
Special == <<"s", "p", "e", "c", "i", "a", "l">>
NameDev == RefsHeads \o <<"d">>
TrackingMain == RefsRemotes \o OriginPrefix \o <<"m">>

RawSpecPool ==
    { RefsHeads \o <<"*">> \o Colon \o RefsRemotes \o OriginPrefix \o <<"*">>,
      <<"m">>,
      <<"+">> \o NameMain \o Colon \o TrackingMain,
      Oid("a"),
      Oid("b") \o Colon \o Special,
      <<"a", "*", "b", "*">> }

SpecLists == UNION {[1..n -> RawSpecPool] : n \in 1..MaxSpecs}

ItemLists ==
    { <<>>,
      <<to_item(Ref(NameMain, Oid("a"), None))>>,
      <<to_item(Ref(NameMain, Oid("a"), None)), to_item(Ref(NameDev, Oid("b"), None))>>,
      <<to_item(Ref(NameMain, Oid("a"), None)), to_item(Ref(NameDev, Oid("b"), None)),
        to_item(Ref(NameTag, Oid("c"), Some(Oid("a"))))>>,
      <<to_item(Ref(NameTag, Oid("c"), Some(Oid("a")))), to_item(Ref(NameMain, Oid("a"), None))>> }

parsed(raws) == [s \in 1..Len(raws) |-> parse_refspec(raws[s])]
all_parse(raws) == \A s \in 1..Len(raws) : parse_refspec(raws[s]).ok

\* baseline entries offered to the check: the recorded outcome and near misses
to_expected(act) == [k \in 1..Len(act) |-> Mapping(act[k].lhs, act[k].rhs)]
BaselinePool(act) ==
    LET e == to_expected(act) IN
    { e,
      [k \in 1..Len(e) |-> Mapping(e[k].remote, None)],
      [k \in 1..Len(e) |-> Mapping(IF k = 1 THEN NameTag ELSE e[k].remote, None)],
      [k \in 1..Len(e) |-> Mapping(e[k].remote, Some(Special))],
      SubSeq(e, 1, Len(e) - 1),
      Append(e, Mapping(NameDev, None)) }

object_sources(raws) ==
    LET ids == SelectSeq(parsed(raws), is_object_id_source)
    IN [k \in 1..Len(ids) |-> ids[k].src]

reversed(l) == [k \in 1..Len(l) |-> l[Len(l) + 1 - k]]

\* the mode argument: Normal, or the object ids and names the caller expects
ModePool(raws, act) ==
    {Normal, ObjectHashSource(object_sources(raws)), ObjectHashSource(lhs_list(act)),
     ObjectHashSource(reversed(lhs_list(act))), ObjectHashSource(<<>>)}

MatchInit ==
    /\ specs \in SpecLists
    /\ items \in ItemLists
    /\ mode = None
    /\ expected = None
    /\ actual = None
    /\ checkState = "start"

MatchIdle ==
    /\ specs = <<>>
    /\ items = <<>>
    /\ mode = None
    /\ expected = None
    /\ actual = None
    /\ checkState = "idle"

\* git_refspec::parse(..).unwrap() panics on a malformed spec
CheckUnparsable ==
    /\ checkState = "start"
    /\ ~all_parse(specs)
    /\ checkState' = "panicked"
    /\ UNCHANGED <<specs, items, mode, expected, actual>>
    /\ UNCHANGED notMatch

\* BASELINE.get(&key): the key is missing, or the case is recorded as fatal
CheckNoBaseline ==
    /\ checkState = "start"
    /\ all_parse(specs)
    /\ \E e \in {"missing", "fatal"} : expected' = Some(Err(e))
    /\ checkState' = "panicked"
    /\ UNCHANGED <<specs, items, mode, actual>>
    /\ UNCHANGED notMatch

\* the baseline holds mappings: match_remotes(input()) is called
CheckMatch ==
    /\ checkState = "start"
    /\ all_parse(specs)
    /\ \E placement \in Placements :
        LET act == match_remotes(parsed(specs), items, placement) IN
        /\ actual' = Some(act)
        /\ \E e \in BaselinePool(act) : expected' = Some(Ok(e))
        /\ \E md \in ModePool(specs, act) : mode' = Some(md)
    /\ checkState' = "matched"
    /\ UNCHANGED <<specs, items>>
    /\ UNCHANGED notMatch

CheckCompare ==
    /\ checkState = "matched"
    /\ checkState' = check_outcome(actual[1], expected[1].value, mode[1])
    /\ UNCHANGED <<specs, items, mode, expected, actual>>
    /\ UNCHANGED notMatch

MatchNext ==
    \/ CheckUnparsable
    \/ CheckNoBaseline
    \/ CheckMatch
    \/ CheckCompare

(***************************************************************************)
(* Specifications                                                          *)
(***************************************************************************)
NamerNext ==
    \/ CallFullRemoteRef
    \/ CallFullTrackingRef

InitNamer == NamerInit /\ InputIdle /\ ParseIdle /\ MatchIdle /\ ConfigIdle
InitInput == NamerIdle /\ InputInit /\ ParseIdle /\ MatchIdle /\ ConfigIdle
InitBaseline == NamerIdle /\ InputIdle /\ ParseInit /\ MatchIdle /\ ConfigIdle
InitMatch == NamerIdle /\ InputIdle /\ ParseIdle /\ MatchInit /\ ConfigIdle
InitConfig == NamerIdle /\ InputIdle /\ ParseIdle /\ MatchIdle /\ ConfigInit

SpecNamer == InitNamer /\ [][NamerNext]_vars
SpecInput == InitInput /\ [][InputNext]_vars
SpecBaseline == InitBaseline /\ [][ParseNext]_vars
SpecMatch == InitMatch /\ [][MatchNext]_vars
SpecConfig == InitConfig /\ [][ConfigNext]_vars

(***************************************************************************)
(* Properties of the Namer                                                 *)
(***************************************************************************)

\* C1: full_remote_ref leaves a token with a '/' unchanged; otherwise a token
\* that looks like a tag gets 'refs/tags/' in front, otherwise a valid hex
\* object id is left unchanged, otherwise 'refs/heads/' is put in front.
C1_RemoteNaming ==
    namerOp = "full_remote_ref" =>
        namerOut = Some(IF contains(name, "/") THEN name
                        ELSE IF looks_like_tag(name) THEN RefsTags \o name
                        ELSE IF from_hex_ok(name) THEN name
                        ELSE RefsHeads \o name)

C1_Witness ==
    /\ namerOp = "full_remote_ref"
    /\ from_hex_ok(name)
    /\ namerOut = Some(name)

\* C2: full_tracking_ref puts 'refs/remotes/' in front of a token that starts
\* with 'origin/', otherwise 'refs/tags/' in front of a token that looks like
\* a tag, and otherwise returns the token exactly as given.
C2_TrackingNaming ==
    namerOp = "full_tracking_ref" =>
        namerOut = Some(IF starts_with(name, OriginPrefix) THEN RefsRemotes \o name
                        ELSE IF looks_like_tag(name) THEN RefsTags \o name
                        ELSE name)

C2_Witness ==
    /\ namerOp = "full_tracking_ref"
    /\ ~starts_with(name, OriginPrefix)
    /\ ~looks_like_tag(name)
    /\ name # <<>>
    /\ namerOut = Some(name)

(***************************************************************************)
(* Properties of parse_input                                               *)
(***************************************************************************)
\* the lines that took effect: the line that ended the parse with an error did not
AppliedRefLines ==
    IF inputState \in {"error", "panicked"} THEN SubSeq(refLines, 1, Len(refLines) - 1)
    ELSE refLines

is_plain_ref_line(line) ==
    /\ ~ref_line_is_from(line)
    /\ from_hex_ok(ref_line_hex(line))
    /\ ref_line_has_name(line)
    /\ ~ends_with(ref_line_name(line), PeeledSuffix)

is_peeled_line(line) ==
    /\ ~ref_line_is_from(line)
    /\ from_hex_ok(ref_line_hex(line))
    /\ ref_line_has_name(line)
    /\ ends_with(ref_line_name(line), PeeledSuffix)

PlainRefLines == {i \in 1..Len(AppliedRefLines) : is_plain_ref_line(AppliedRefLines[i])}

\* the '^{}' lines that belong to the ref line at i: those before the next ref line
PeeledLinesOf(i) ==
    {j \in (i + 1)..Len(AppliedRefLines) :
        /\ is_peeled_line(AppliedRefLines[j])
        /\ \A k \in (i + 1)..j : ~is_plain_ref_line(AppliedRefLines[k])}

\* the Ref built from the ref line at i
RefOfLine(i) == out[Cardinality({k \in PlainRefLines : k <= i})]

\* a ref line directly followed by the '^{}' line of the same name, and by no other
IsAnnotatedTag(i) ==
    /\ PeeledLinesOf(i) = {i + 1}
    /\ ref_line_name(AppliedRefLines[i + 1]) = ref_line_name(AppliedRefLines[i]) \o PeeledSuffix

\* C4 as stated: for an annotated tag, 'tag' holds the id of the peeled line
\* and 'target' the id of the ref line itself; without a '^{}' line 'tag' is absent.
C4_TagHoldsPeeled ==
    \A i \in PlainRefLines :
        /\ IsAnnotatedTag(i) =>
              /\ RefOfLine(i).tag = Some(ref_line_hex(AppliedRefLines[i + 1]))
              /\ RefOfLine(i).target = ref_line_hex(AppliedRefLines[i])
        /\ PeeledLinesOf(i) = {} => RefOfLine(i).tag = None

\* C4 amended: for an annotated tag (a ref line followed by its '^{}' line),
\* 'tag' is present and holds the id of the ref line itself (the tag object),
\* while 'target' holds the id of the '^{}' line (the peeled object); for a ref
\* without a '^{}' line 'tag' is absent and 'target' is the id of its line.
C4_TagHoldsTagObject ==
    \A i \in PlainRefLines :
        /\ RefOfLine(i).name = ref_line_name(AppliedRefLines[i])
        /\ IsAnnotatedTag(i) =>
              /\ RefOfLine(i).tag = Some(ref_line_hex(AppliedRefLines[i]))
              /\ RefOfLine(i).target = ref_line_hex(AppliedRefLines[i + 1])
        /\ PeeledLinesOf(i) = {} =>
              /\ RefOfLine(i).tag = None
              /\ RefOfLine(i).target = ref_line_hex(AppliedRefLines[i])

C4_Witness ==
    /\ inputState = "done"
    /\ \E i \in PlainRefLines :
        /\ IsAnnotatedTag(i)
        /\ ref_line_hex(AppliedRefLines[i]) # ref_line_hex(AppliedRefLines[i + 1])
        /\ RefOfLine(i).tag = Some(ref_line_hex(AppliedRefLines[i]))
        /\ RefOfLine(i).target = ref_line_hex(AppliedRefLines[i + 1])

(***************************************************************************)
(* Properties of baseline::parse                                           *)
(***************************************************************************)
Last(q) == q[Len(q)]
SetMax(S) == CHOOSE x \in S : \A y \in S : y <= x
SetMin(S) == CHOOSE x \in S : \A y \in S : x <= y

SpecsLines == {i \in 1..Len(lines) : is_specs_line(lines[i])}
PrevSpecs(i) == SetMax({j \in SpecsLines : j < i} \cup {0})
NextSpecs(i) == SetMin({j \in SpecsLines : j > i} \cup {Len(lines) + 1})

\* the message of the last 'fatal:' line strictly between a and b
FatalBetween(a, b) ==
    LET fs == {k \in (a + 1)..(b - 1) : is_fatal_line(lines[k])} IN
    IF fs = {} THEN None ELSE Some(fatal_message(lines[SetMax(fs)]))

\* the mappings of the mapping lines strictly between a and b, in order
RECURSIVE MappingsBetween(_, _)
MappingsBetween(a, b) ==
    IF a + 1 >= b THEN <<>>
    ELSE (IF is_mapping_line(lines[a + 1])
          THEN <<Mapping(full_remote_ref(line_lhs(lines[a + 1])),
                         IF line_rhs(lines[a + 1]) = FETCH_HEAD THEN None
                         ELSE Some(full_tracking_ref(line_rhs(lines[a + 1]))))>>
          ELSE <<>>)
         \o MappingsBetween(a + 1, b)

\* the specs line at i is the last one with its key
IsLastOfKey(i) ==
    \A j \in SpecsLines : j > i => specs_key(lines[j]) # specs_key(lines[i])

\* the last specs line before i whose case was recorded as mappings, else 0
LastTaken(i) ==
    SetMax({j \in SpecsLines : j < i /\ FatalBetween(PrevSpecs(j), j) = None} \cup {0})

\* C3: a mapping line whose destination token is FETCH_HEAD yields a Mapping
\* with local = None; any other destination token yields
\* local = Some(full_tracking_ref(token)).
C3_FetchHeadSentinel ==
    (parseState = "running" /\ lines # <<>> /\ is_mapping_line(Last(lines))) =>
        /\ mappings # <<>>
        /\ Last(mappings).local =
              IF line_rhs(Last(lines)) = FETCH_HEAD THEN None
              ELSE Some(full_tracking_ref(line_rhs(Last(lines))))

C3_Witness ==
    /\ parseState = "running"
    /\ lines # <<>>
    /\ is_mapping_line(Last(lines))
    /\ line_rhs(Last(lines)) = FETCH_HEAD
    /\ Last(mappings).local = None

C10_NothingCarriedOver ==
    (parseState = "running" /\ lines # <<>> /\ is_specs_line(Last(lines))) =>
        /\ mappings = <<>>
        /\ fatal = None

(***************************************************************************)
(* Properties of match_remotes as seen by check_fetch_remote               *)
(***************************************************************************)
Actual == actual[1]
Expected == expected[1].value
TheMode == mode[1]

C8_SettledOnce ==
    /\ Len(settled) <= 1
    /\ (snap # None /\ snap[1].repo) => settled = <<>>
    /\ (snap # None /\ ~snap[1].repo) => Len(settled) = 1 /\ settled[1] # "drop"
    /\ (snap = None /\ txn > 0) => Len(settled) = 1

C8_Witness ==
    /\ snap = None
    /\ txn > 0
    /\ settled = <<"drop">>

\* C9: when a CommitAndRollback guard is dropped, the configuration is re-read
\* from the guard's prev_config; if the re-read succeeds the repository holds
\* prev_config again and the caches are cleared; no error leaves the drop.
C9_RollbackOnDrop ==
    [][(guard # None /\ guard' = None) =>
          /\ rereadArg' # None
          /\ rereadArg'[1].config = guard[1].prev_config
          /\ rereadArg'[1].ok => (repoConfig' = guard[1].prev_config /\ cachesCleared')
          /\ ~rereadArg'[1].ok => repoConfig' = repoConfig
          /\ ~escaped']_vars

C9_Witness ==
    /\ guard = None
    /\ rereadArg # None
    /\ rereadArg[1].ok
    /\ repoConfig = rereadArg[1].config
    /\ cachesCleared
    /\ settled = <<"commit_auto_rollback">>
    /\ ~escaped

====
